---- MODULE Spec2Model ----
(***************************************************************************)
(* Exchange lifecycle and credit settlement of intercambio_dorado          *)
(* (src/app/app.py on top of src/app/db.py).                               *)
(*                                                                         *)
(* db.py opens a new connection for every query_one / query_all / execute  *)
(* call and commits it on its own, so every SQL statement of a handler is  *)
(* one atomic step and nothing groups the statements of one request.       *)
(* A statement is an operator from (tables, request context) to            *)
(* (tables, request context); the context holds the handler's arguments,   *)
(* its local variables and the statement it runs next (pc).                *)
(*   Spec      : requests run concurrently, one statement at a time, and   *)
(*               may die between two statements.                           *)
(*   SpecSerie : requests are served one at a time, each to its end.       *)
(*   SpecAlta, SpecSerieAlta : the creation requests alone, concurrent and  *)
(*               one at a time, with room for a second exchange.           *)
(*   SpecValora, SpecSerieValora : rating submissions next to the status   *)
(*               changes, concurrent and one at a time (the latter with    *)
(*               the edit and the deletion of the exchange).               *)
(***************************************************************************)
EXTENDS Integers, Sequences, FiniteSets, TLC

(* ------------------------------ bounds -------------------------------- *)
\* concurrent requests in flight
NProcs == 2
\* rows the intercambio table may ever receive (ids are a serial)
MaxInter == 1
\* requests that may die between two statements
MaxCaidas == 1
\* rows the intercambio table may receive in the specifications of the
\* creation requests (SpecAlta, SpecSerieAlta)
MaxFilas == 2
\* rows the valoracion table may ever receive (ids are a serial)
MaxVal == 2

(* ------------------------- program constants -------------------------- *)
\* register(): "Insert usuario con créditos iniciales (10)"
CreditosIniciales == 10
\* creditos_hora of the services that exist at start (valid_int(.., 1, 10))
CostoInicial == 3
\* admin_user_edit: creditos = valid_int(request.form.get("creditos"), 0, 10**9)
MinCreditosAdmin == 0
\* SQL NULL (id_servicio_contraparte), also the id of no row
NULL == 0

Procs == 1..NProcs
\* the registered members (the requester R and the provider P of the scenarios);
\* member u owns service u
Usuarios == {1, 2}
Servicios == {1, 2}
\* rows the servicio table can hold: the services of Init and those created on
\* the spot by intercambios_create_direct
MaxServ == 3
ServIds == 1..MaxServ
\* valid_int(request.form.get("nuevo_creditos_hora"), 1, 10)
MinCreditosHora == 1
MaxCreditosHora == 10
\* a third registered member, who owns no service and creates no exchange
Ajeno == 3
\* the members that may hold a session
Sesiones == Usuarios \cup {Ajeno}
Ids == 1..MaxFilas
ValIds == 1..MaxVal
\* puntuacion = valid_int(request.form.get("puntuacion"), 1, 5)
MinPuntuacion == 1
MaxPuntuacion == 5
\* scores typed into the rating form: one out of range, one in range
Puntuaciones == {0, 5}

\* a slot of the servicio table that holds no row
SinServicio == [id_usuario |-> NULL, creditos_hora |-> 0]

\* a slot of the intercambio table that holds no row
SinFila ==
  [estado |-> "ninguno", id_servicio_solicitado |-> NULL, id_solicitante |-> NULL,
   id_proveedor |-> NULL, id_servicio_contraparte |-> NULL]

\* a slot of the valoracion table that holds no row
SinValoracion ==
  [id_intercambio |-> NULL, id_autor |-> NULL, id_destinatario |-> NULL,
   puntuacion |-> 0]

\* what the DELETE of an exchange that ratings reference does. The source holds
\* no table definition, so each outcome a definition of valoracion.id_intercambio
\* can give is drawn: the ratings go with the exchange, the DELETE is refused,
\* or the ratings stay behind
ClavesForaneas == {"cascada", "restringe", "ninguna"}

\* query_one returned None
SinData ==
  [estado_actual |-> "ninguno", id_solicitante |-> NULL, id_proveedor |-> NULL,
   id_servicio_contraparte |-> NULL, creditos_hora |-> 0]

\* values the administrator types into the credit field of the panel: one that
\* valid_int refuses and one below the cost of a service
CreditosAdmin == {-1, 2}

\* rol in ["admin", "usuario"]
Roles == {"admin", "usuario"}

ESTADOS == <<"pendiente", "confirmado", "en_progreso", "completado", "cancelado">>

EstadosSet == {ESTADOS[k] : k \in 1..Len(ESTADOS)}

\* a value of the form field "estado" that is no member of ESTADOS
EstadoAjeno == "archivado"

\* TRANSICIONES with a shortcut from pendiente to en_progreso
TRANSICIONES_con_atajo ==
  [e \in EstadosSet |->
     CASE e = "pendiente"   -> {"confirmado", "en_progreso", "cancelado"}
       [] e = "confirmado"  -> {"en_progreso", "cancelado"}
       [] e = "en_progreso" -> {"completado", "cancelado"}
       [] OTHER             -> {}]

TRANSICIONES ==
  [e \in EstadosSet |->
     CASE e = "pendiente"   -> {"confirmado", "cancelado"}
       [] e = "confirmado"  -> {"en_progreso", "cancelado"}
       [] e = "en_progreso" -> {"completado", "cancelado"}
       [] e = "completado"  -> {}
       [] e = "cancelado"   -> {}]

\* allowed_states_for_user offering the forward targets to every actor
allowed_states_for_user_sin_proveedor(actual, es_proveedor) ==
  LET actual_ == IF actual = "" THEN "pendiente" ELSE actual
      opciones ==
        {actual_}
          \cup (IF actual_ \in {"pendiente", "confirmado", "en_progreso"}
                THEN {"cancelado"} ELSE {})
          \cup (IF actual_ \in DOMAIN TRANSICIONES THEN TRANSICIONES[actual_] ELSE {})
  IN SelectSeq(ESTADOS, LAMBDA e : e \in opciones)

\* actual = actual or "pendiente"; opciones = {actual}; add "cancelado" when
\* actual is active; opciones |= TRANSICIONES.get(actual, set()) for the
\* provider; return [e for e in ESTADOS if e in opciones]
allowed_states_for_user(actual, es_proveedor) ==
  LET actual_ == IF actual = "" THEN "pendiente" ELSE actual
      opciones ==
        {actual_}
          \cup (IF actual_ \in {"pendiente", "confirmado", "en_progreso"}
                THEN {"cancelado"} ELSE {})
          \cup (IF es_proveedor /\ actual_ \in DOMAIN TRANSICIONES
                THEN TRANSICIONES[actual_] ELSE {})
  IN SelectSeq(ESTADOS, LAMBDA e : e \in opciones)

\* nuevo in ("confirmado", "en_progreso", "completado")
Avances == {"confirmado", "en_progreso", "completado"}

\* estado IN ('pendiente','confirmado','en_progreso')
Activos == {"pendiente", "confirmado", "en_progreso"}

VARIABLES
  usuario,      \* table usuario: id_usuario -> [creditos]
  servicio,     \* table servicio: id_servicio -> [id_usuario, creditos_hora]
  intercambio,  \* table intercambio: id_intercambio -> row, or SinFila
  sigId,        \* next value of the serial id_intercambio
  valoracion,   \* table valoracion: id_valoracion -> row, or SinValoracion
  sigVal,       \* next value of the serial id_valoracion
  mov,          \* per exchange: debits and credits executed on its behalf
  ctx,          \* per worker: the context of the request it is serving
  caidas,       \* requests that died so far
  flash,        \* SpecSerie: the flash message of the last response
  vista         \* SpecLista: the lists the last GET /intercambios rendered

vars ==
  <<usuario, servicio, intercambio, sigId, valoracion, sigVal, mov, ctx, caidas, flash,
    vista>>

\* the tables as one value
T ==
  [usuario |-> usuario, servicio |-> servicio, intercambio |-> intercambio,
   sigId |-> sigId, valoracion |-> valoracion, sigVal |-> sigVal, mov |-> mov]

\* no GET /intercambios has been served
SinVista == [uid |-> NULL, enviados |-> <<>>, recibidos |-> <<>>]

\* the context of a worker that serves no request
Vacio ==
  [pc |-> "idle", op |-> "", uid |-> NULL, id |-> NULL, nuevo |-> "", modo |-> "",
   serv |-> NULL, contra |-> NULL, costo |-> 0, creditos |-> 0, sol |-> NULL,
   prov |-> NULL, dest |-> NULL, punt |-> 0, fk |-> "", nuevo_creditos_hora |-> 0,
   sesion_rol |-> "usuario", rol |-> "usuario", creditos_hora |-> 0, res |-> ""]

Init ==
  /\ usuario = [u \in Sesiones |-> [creditos |-> CreditosIniciales, rol |-> "usuario"]]
  /\ servicio = [s \in ServIds |->
                    IF s \in Servicios
                    THEN [id_usuario |-> s, creditos_hora |-> CostoInicial]
                    ELSE SinServicio]
  /\ intercambio = [i \in Ids |-> SinFila]
  /\ sigId = 1
  /\ valoracion = [v \in ValIds |-> SinValoracion]
  /\ sigVal = 1
  /\ mov = [i \in Ids |-> [debitos |-> 0, abonos |-> 0]]
  /\ ctx = [p \in Procs |-> Vacio]
  /\ caidas = 0
  /\ flash = ""
  /\ vista = SinVista

\* the handler returns (redirect / render) with the flash message r
Termina(t, c, r) == [t |-> t, c |-> [c EXCEPT !.pc = "fin", !.res = r]]

\* the handler goes on to its statement s
Sigue(t, c, s) == [t |-> t, c |-> [c EXCEPT !.pc = s]]

Existe(t, i) == i \in Ids /\ t.intercambio[i].estado # "ninguno"

(* ----------------------- intercambios_estado -------------------------- *)

\* SELECT ... FROM intercambio i JOIN servicio s ... WHERE i.id_intercambio=%s
\*   AND (i.id_solicitante=%s OR i.id_proveedor=%s)
estado_data(t, uid, id) ==
  IF /\ Existe(t, id)
     /\ (t.intercambio[id].id_solicitante = uid \/ t.intercambio[id].id_proveedor = uid)
  THEN [estado_actual |-> t.intercambio[id].estado,
        id_solicitante |-> t.intercambio[id].id_solicitante,
        id_proveedor |-> t.intercambio[id].id_proveedor,
        id_servicio_contraparte |-> t.intercambio[id].id_servicio_contraparte,
        creditos_hora |->
          t.servicio[t.intercambio[id].id_servicio_solicitado].creditos_hora]
  ELSE SinData

\* estado_validar without the TRANSICIONES check
estado_validar_sin_tabla(data, uid, nuevo) ==
  IF nuevo \notin EstadosSet THEN "estado_invalido"
  ELSE IF data = SinData THEN "sin_permiso"
  ELSE IF nuevo = data.estado_actual THEN "sin_cambio"
  ELSE IF nuevo \in Avances /\ uid # data.id_proveedor THEN "solo_proveedor"
  ELSE IF nuevo = "completado" /\ data.id_servicio_contraparte = NULL THEN "est_saldo"
  ELSE "est_update"

\* estado_validar settling every completion in credits, counter-service or not
estado_validar_siempre_creditos(data, uid, nuevo) ==
  IF nuevo \notin EstadosSet THEN "estado_invalido"
  ELSE IF data = SinData THEN "sin_permiso"
  ELSE IF nuevo = data.estado_actual THEN "sin_cambio"
  ELSE IF nuevo \notin TRANSICIONES[data.estado_actual] THEN "transicion_no_permitida"
  ELSE IF nuevo \in Avances /\ uid # data.id_proveedor THEN "solo_proveedor"
  ELSE IF nuevo = "completado" THEN "est_saldo"
  ELSE "est_update"

\* estado_validar without the membership check of the target
estado_validar_sin_estados(data, uid, nuevo) ==
  IF data = SinData THEN "sin_permiso"
  ELSE IF nuevo = data.estado_actual THEN "sin_cambio"
  ELSE IF nuevo \in EstadosSet /\ nuevo \notin TRANSICIONES[data.estado_actual]
    THEN "transicion_no_permitida"
  ELSE IF nuevo \in Avances /\ uid # data.id_proveedor THEN "solo_proveedor"
  ELSE IF nuevo = "completado" /\ data.id_servicio_contraparte = NULL THEN "est_saldo"
  ELSE "est_update"

\* estado_validar asking for the provider on every target, 'cancelado' too
estado_validar_cancela_proveedor(data, uid, nuevo) ==
  IF nuevo \notin EstadosSet THEN "estado_invalido"
  ELSE IF data = SinData THEN "sin_permiso"
  ELSE IF nuevo = data.estado_actual THEN "sin_cambio"
  ELSE IF nuevo \notin TRANSICIONES[data.estado_actual] THEN "transicion_no_permitida"
  ELSE IF uid # data.id_proveedor THEN "solo_proveedor"
  ELSE IF nuevo = "completado" /\ data.id_servicio_contraparte = NULL THEN "est_saldo"
  ELSE "est_update"

\* estado_validar without the same-status check
estado_validar_sin_mismo(data, uid, nuevo) ==
  IF nuevo \notin EstadosSet THEN "estado_invalido"
  ELSE IF data = SinData THEN "sin_permiso"
  ELSE IF nuevo \notin TRANSICIONES[data.estado_actual] THEN "transicion_no_permitida"
  ELSE IF nuevo \in Avances /\ uid # data.id_proveedor THEN "solo_proveedor"
  ELSE IF nuevo = "completado" /\ data.id_servicio_contraparte = NULL THEN "est_saldo"
  ELSE "est_update"

\* the checks between the SELECT and the first write: the flash message of the
\* early return taken, or the statement the handler runs next
estado_validar(data, uid, nuevo) ==
  IF nuevo \notin EstadosSet THEN "estado_invalido"
  ELSE IF data = SinData THEN "sin_permiso"
  ELSE IF nuevo = data.estado_actual THEN "sin_cambio"
  ELSE IF nuevo \notin TRANSICIONES[data.estado_actual] THEN "transicion_no_permitida"
  ELSE IF nuevo \in Avances /\ uid # data.id_proveedor THEN "solo_proveedor"
  ELSE IF nuevo = "completado"
    THEN IF data.estado_actual # "en_progreso" THEN "falta_en_progreso"
         ELSE IF data.id_servicio_contraparte = NULL THEN "est_saldo"
         ELSE "est_update"
  ELSE "est_update"

\* nuevo not in ESTADOS returns before any query; else query_one(data) and the
\* in-memory checks that follow it
estado_consulta(t, c) ==
  LET data == IF c.nuevo \in EstadosSet THEN estado_data(t, c.uid, c.id) ELSE SinData
      v == estado_validar(data, c.uid, c.nuevo)
  IN IF v \in {"est_saldo", "est_update"}
     THEN Sigue(t, [c EXCEPT !.costo = data.creditos_hora,
                             !.sol = data.id_solicitante,
                             !.prov = data.id_proveedor,
                             !.contra = data.id_servicio_contraparte], v)
     ELSE Termina(t, c, v)

\* estado_saldo comparing the balance with the cost services start with
estado_saldo_costo_inicial(t, c) ==
  IF t.usuario[c.sol].creditos < CostoInicial
  THEN Termina(t, c, "saldo_insuficiente")
  ELSE Sigue(t, c, "est_debito")

\* estado_saldo without the comparison of the balance with the cost
estado_saldo_sin_control(t, c) == Sigue(t, c, "est_debito")

\* saldo = query_one("SELECT creditos FROM usuario WHERE id_usuario=%s")
estado_saldo(t, c) ==
  IF t.usuario[c.sol].creditos < c.costo
  THEN Termina(t, c, "saldo_insuficiente")
  ELSE Sigue(t, c, "est_debito")

\* execute("UPDATE usuario SET creditos = creditos - %s WHERE id_usuario=%s")
estado_debito(t, c) ==
  Sigue([t EXCEPT !.usuario[c.sol].creditos = @ - c.costo,
                  !.mov[c.id].debitos = @ + 1], c, "est_abono")

\* execute("UPDATE usuario SET creditos = creditos + %s WHERE id_usuario=%s")
estado_abono(t, c) ==
  Sigue([t EXCEPT !.usuario[c.prov].creditos = @ + c.costo,
                  !.mov[c.id].abonos = @ + 1], c, "est_update")

\* execute("UPDATE intercambio SET estado=%s WHERE id_intercambio=%s")
estado_update(t, c) ==
  Termina(IF Existe(t, c.id) THEN [t EXCEPT !.intercambio[c.id].estado = c.nuevo] ELSE t,
          c, "actualizado")

(* ---------------------- intercambios_solicitar ------------------------ *)

\* activo_existe without the condition on estado
activo_existe_cualquiera(t, serv, sol, prov) ==
  \E i \in Ids :
     /\ t.intercambio[i].estado \in EstadosSet
     /\ t.intercambio[i].id_servicio_solicitado = serv
     /\ t.intercambio[i].id_solicitante = sol
     /\ t.intercambio[i].id_proveedor = prov

\* SELECT 1 FROM intercambio WHERE id_servicio_solicitado=%s AND id_solicitante=%s
\*   AND id_proveedor=%s AND estado IN ('pendiente','confirmado','en_progreso')
activo_existe(t, serv, sol, prov) ==
  \E i \in Ids :
     /\ t.intercambio[i].estado \in Activos
     /\ t.intercambio[i].id_servicio_solicitado = serv
     /\ t.intercambio[i].id_solicitante = sol
     /\ t.intercambio[i].id_proveedor = prov

\* INSERT INTO intercambio (...) VALUES (..., 'pendiente')
insertar(t, serv, sol, prov, contra) ==
  [t EXCEPT !.intercambio[t.sigId] =
              [estado |-> "pendiente", id_servicio_solicitado |-> serv,
               id_solicitante |-> sol, id_proveedor |-> prov,
               id_servicio_contraparte |-> contra],
            !.sigId = @ + 1]

\* serv = query_one(...); the own-service check
solicitar_servicio(t, c) ==
  IF t.servicio[c.serv].id_usuario = c.uid
  THEN Termina(t, c, "servicio_propio")
  ELSE Sigue(t, [c EXCEPT !.sol = c.uid, !.prov = t.servicio[c.serv].id_usuario],
             "sol_existe")

\* existe = query_one(...)
solicitar_existe(t, c) ==
  IF activo_existe(t, c.serv, c.sol, c.prov)
  THEN Termina(t, c, "ya_activa")
  ELSE Sigue(t, c, "sol_insert")

solicitar_insert(t, c) ==
  Termina(insertar(t, c.serv, c.sol, c.prov, NULL), [c EXCEPT !.id = t.sigId], "creado")

(* -------------------- intercambios_create_direct ---------------------- *)

\* directo_validar looking the service up without its owner
directo_validar_sin_servicio(t, c) ==
  IF c.prov \in Usuarios /\ t.servicio[c.serv] # SinServicio
  THEN Sigue(t, [c EXCEPT !.sol = c.uid], "dir_dup")
  ELSE Termina(t, c, "seleccion_invalida")

\* prov_ok, serv_ok = query_one(...), query_one(...)
directo_validar(t, c) ==
  IF c.prov \in Usuarios /\ t.servicio[c.serv].id_usuario = c.prov
  THEN Sigue(t, [c EXCEPT !.sol = c.uid], "dir_dup")
  ELSE Termina(t, c, "seleccion_invalida")

\* dup = query_one(...); id_contraparte = None; offer_id and, without one, the
\* fields of the service to create (titulo and descripcion are taken as filled in)
directo_dup(t, c) ==
  IF activo_existe(t, c.serv, c.sol, c.prov)
  THEN Termina(t, c, "ya_activa")
  ELSE IF c.modo = "servicio"
       THEN IF c.contra # NULL
            THEN Sigue(t, c, "dir_mine")
            ELSE IF c.nuevo_creditos_hora \notin MinCreditosHora..MaxCreditosHora
                 THEN Termina(t, c, "servicio_nuevo_incompleto")
                 ELSE Sigue(t, c, "dir_servicio")
       ELSE Sigue(t, [c EXCEPT !.contra = NULL], "dir_insert")

\* mine_ok = query_one("SELECT 1 FROM servicio WHERE id_servicio=%s AND id_usuario=%s")
directo_mine(t, c) ==
  IF t.servicio[c.contra].id_usuario = c.uid
  THEN Sigue(t, c, "dir_insert")
  ELSE Termina(t, c, "ofrecido_invalido")

\* the value the serial of servicio gives to the next row (no row of servicio
\* is removed, so the rows are 1..sigServ-1)
sigServ(t) == Cardinality({s \in ServIds : t.servicio[s] # SinServicio}) + 1

\* the service created on the spot, owned by the provider of the exchange
directo_servicio_del_proveedor(t, c) ==
  Sigue([t EXCEPT !.servicio[sigServ(t)] =
                    [id_usuario |-> c.prov, creditos_hora |-> c.nuevo_creditos_hora]],
        [c EXCEPT !.contra = sigServ(t)], "dir_insert")

\* row = query_one("INSERT INTO servicio (.., creditos_hora, id_usuario)
\*   VALUES (.., c, uid) RETURNING id_servicio"); id_contraparte = row["id_servicio"]
directo_servicio(t, c) ==
  Sigue([t EXCEPT !.servicio[sigServ(t)] =
                    [id_usuario |-> c.uid, creditos_hora |-> c.nuevo_creditos_hora]],
        [c EXCEPT !.contra = sigServ(t)], "dir_insert")

\* execute("INSERT INTO intercambio (...) VALUES (.., id_contraparte, 'pendiente')")
directo_insert(t, c) ==
  Termina(insertar(t, c.serv, c.sol, c.prov, c.contra), [c EXCEPT !.id = t.sigId],
          "creado")

(* ----------------------- intercambios_aceptar ------------------------- *)

\* aceptar_consulta without the check of 'pendiente'
aceptar_consulta_sin_estado(t, c) ==
  IF ~(Existe(t, c.id) /\ t.intercambio[c.id].id_proveedor = c.uid)
  THEN Termina(t, c, "sin_permiso")
  ELSE Sigue(t, [c EXCEPT !.sol = t.intercambio[c.id].id_solicitante, !.prov = c.uid],
             "ac_servicios")

\* inter = query_one(... WHERE i.id_intercambio=%s AND i.id_proveedor=%s)
aceptar_consulta(t, c) ==
  IF ~(Existe(t, c.id) /\ t.intercambio[c.id].id_proveedor = c.uid)
  THEN Termina(t, c, "sin_permiso")
  ELSE IF t.intercambio[c.id].estado # "pendiente"
  THEN Termina(t, c, "no_pendiente")
  ELSE Sigue(t, [c EXCEPT !.sol = t.intercambio[c.id].id_solicitante, !.prov = c.uid],
             "ac_servicios")

\* servicios_solicitante = query_all(...); the POST branch up to its execute
aceptar_servicios(t, c) ==
  LET servicios_solicitante == {s \in ServIds : t.servicio[s].id_usuario = c.sol}
  IN IF c.modo = "creditos"
     THEN Sigue(t, [c EXCEPT !.contra = NULL], "ac_update")
     ELSE IF c.contra \notin servicios_solicitante
     THEN Termina(t, c, "servicio_invalido")
     ELSE Sigue(t, c, "ac_update")

\* UPDATE intercambio SET id_servicio_contraparte=.., estado='confirmado'
\*   WHERE id_intercambio=%s AND id_proveedor=%s
aceptar_update(t, c) ==
  Termina(IF Existe(t, c.id) /\ t.intercambio[c.id].id_proveedor = c.uid
          THEN [t EXCEPT !.intercambio[c.id].id_servicio_contraparte = c.contra,
                         !.intercambio[c.id].estado = "confirmado"]
          ELSE t,
          c, "aceptado")

(* --------------------------- servicios_edit --------------------------- *)

\* servicio = query_one(... WHERE s.id_servicio=%s AND s.id_usuario=%s); the
\* checks of the POST (titulo and descripcion are taken as filled in)
servicios_consulta(t, c) ==
  IF t.servicio[c.id].id_usuario # c.uid THEN Termina(t, c, "servicio_no_encontrado")
  ELSE IF c.creditos_hora \notin MinCreditosHora..MaxCreditosHora
  THEN Termina(t, c, "creditos_hora_invalidos")
  ELSE Sigue(t, c, "ser_update")

\* UPDATE servicio SET titulo=%s, descripcion=%s, creditos_hora=%s
\*   WHERE id_servicio=%s AND id_usuario=%s
servicios_update(t, c) ==
  Termina(IF t.servicio[c.id].id_usuario = c.uid
          THEN [t EXCEPT !.servicio[c.id].creditos_hora = c.creditos_hora]
          ELSE t,
          c, "servicio_actualizado")

(* -------------------------- admin_user_edit --------------------------- *)

\* rol not in ["admin", "usuario"]; role_row; UPDATE usuario SET nombre=%s,
\* ubicacion=%s, creditos=%s, id_rol=%s WHERE id_usuario=%s
\* (nombre and ubicacion take no part in the exchanges and are left out)
admin_user_edit(t, c) ==
  IF c.rol \notin Roles THEN Termina(t, c, "rol_invalido")
  ELSE IF c.creditos < MinCreditosAdmin
  THEN Termina(t, c, "datos_invalidos")
  ELSE Termina([t EXCEPT !.usuario[c.id].creditos = c.creditos,
                         !.usuario[c.id].rol = c.rol],
               c, "usuario_actualizado")

(* ------------------------- intercambios_edit -------------------------- *)

\* inter = query_one(... WHERE i.id_intercambio=%s); the three early returns;
\* mis_servicios = query_all(...); modo and id_contra of the POST
editar_consulta(t, c) ==
  IF ~Existe(t, c.id) THEN Termina(t, c, "no_encontrado")
  ELSE IF c.uid # t.intercambio[c.id].id_solicitante THEN Termina(t, c, "solo_solicitante")
  ELSE IF t.intercambio[c.id].estado # "pendiente" THEN Termina(t, c, "solo_pendiente")
  ELSE IF c.modo = "servicio" THEN Sigue(t, c, "ed_mine")
  ELSE Sigue(t, [c EXCEPT !.contra = NULL], "ed_update")

\* ok = query_one("SELECT 1 FROM servicio WHERE id_servicio=%s AND id_usuario=%s")
editar_mine(t, c) ==
  IF t.servicio[c.contra].id_usuario = c.uid
  THEN Sigue(t, c, "ed_update")
  ELSE Termina(t, c, "ofrecido_invalido")

\* UPDATE intercambio SET id_servicio_contraparte=%s
\*   WHERE id_intercambio=%s AND id_solicitante=%s AND estado='pendiente'
editar_update(t, c) ==
  Termina(IF /\ Existe(t, c.id)
             /\ t.intercambio[c.id].id_solicitante = c.uid
             /\ t.intercambio[c.id].estado = "pendiente"
          THEN [t EXCEPT !.intercambio[c.id].id_servicio_contraparte = c.contra]
          ELSE t,
          c, "editado")

(* ------------------------ intercambios_delete ------------------------- *)

\* the ratings that reference exchange i
valoraciones_de(t, i) == {v \in ValIds : t.valoracion[v].id_intercambio = i}

\* eliminar_consulta without the check of the participant
eliminar_consulta_sin_permiso(t, c) ==
  IF ~Existe(t, c.id) THEN Termina(t, c, "no_encontrado")
  ELSE IF t.intercambio[c.id].estado \in {"confirmado", "en_progreso"}
  THEN Termina(t, c, "no_eliminable")
  ELSE Sigue(t, c, "del_delete")

\* inter = query_one(... WHERE id_intercambio=%s) and the three early returns
eliminar_consulta(t, c) ==
  IF ~Existe(t, c.id) THEN Termina(t, c, "no_encontrado")
  ELSE IF /\ c.uid # t.intercambio[c.id].id_solicitante
          /\ c.uid # t.intercambio[c.id].id_proveedor
  THEN Termina(t, c, "sin_permiso_eliminar")
  ELSE IF t.intercambio[c.id].estado \in {"confirmado", "en_progreso"}
  THEN Termina(t, c, "no_eliminable")
  ELSE Sigue(t, c, "del_delete")

\* execute("DELETE FROM intercambio WHERE id_intercambio=%s")
eliminar_delete(t, c) ==
  IF ~Existe(t, c.id) THEN Termina(t, c, "eliminado")
  ELSE IF valoraciones_de(t, c.id) # {} /\ c.fk = "restringe"
  THEN Termina(t, c, "error")
  ELSE Termina([t EXCEPT !.intercambio[c.id] = SinFila,
                         !.valoracion = [v \in ValIds |->
                            IF v \in valoraciones_de(t, c.id) /\ c.fk = "cascada"
                            THEN SinValoracion
                            ELSE t.valoracion[v]]],
               c, "eliminado")

(* ------------------------ valoraciones_create ------------------------- *)

\* ya_valorado without the condition on the author
ya_valorado_cualquiera(t, i, autor) ==
  \E v \in ValIds : t.valoracion[v].id_intercambio = i

\* SELECT 1 FROM valoracion WHERE id_intercambio=%s AND id_autor=%s
ya_valorado(t, i, autor) ==
  \E v \in ValIds :
     t.valoracion[v].id_intercambio = i /\ t.valoracion[v].id_autor = autor

\* valorar_consulta without the check of the status
valorar_consulta_sin_estado(t, c) ==
  IF ~(/\ Existe(t, c.id)
       /\ (t.intercambio[c.id].id_solicitante = c.uid
             \/ t.intercambio[c.id].id_proveedor = c.uid))
  THEN Termina(t, c, "sin_permiso")
  ELSE Sigue(t, [c EXCEPT !.dest = IF c.uid = t.intercambio[c.id].id_solicitante
                                   THEN t.intercambio[c.id].id_proveedor
                                   ELSE t.intercambio[c.id].id_solicitante],
             "val_ya")

\* inter = query_one(... AND (id_solicitante=%s OR id_proveedor=%s)); autor and
\* destinatario
valorar_consulta(t, c) ==
  IF ~(/\ Existe(t, c.id)
       /\ (t.intercambio[c.id].id_solicitante = c.uid
             \/ t.intercambio[c.id].id_proveedor = c.uid))
  THEN Termina(t, c, "sin_permiso")
  ELSE IF t.intercambio[c.id].estado # "completado"
  THEN Termina(t, c, "no_completado")
  ELSE Sigue(t, [c EXCEPT !.dest = IF c.uid = t.intercambio[c.id].id_solicitante
                                   THEN t.intercambio[c.id].id_proveedor
                                   ELSE t.intercambio[c.id].id_solicitante],
             "val_ya")

\* valorar_ya validating the score before it looks for an earlier rating
valorar_ya_puntuacion_primero(t, c) ==
  IF c.punt < MinPuntuacion \/ c.punt > MaxPuntuacion
  THEN Termina(t, c, "puntuacion_invalida")
  ELSE IF ya_valorado(t, c.id, c.uid) THEN Termina(t, c, "ya_valorado")
  ELSE Sigue(t, c, "val_insert")

\* ya = query_one(...); then the validation of the score of the POST
valorar_ya(t, c) ==
  IF ya_valorado(t, c.id, c.uid) THEN Termina(t, c, "ya_valorado")
  ELSE IF c.punt < MinPuntuacion \/ c.punt > MaxPuntuacion
  THEN Termina(t, c, "puntuacion_invalida")
  ELSE Sigue(t, c, "val_insert")

\* valorar_insert paying the rated participant one credit for a top score
valorar_insert_con_premio(t, c) ==
  Termina([t EXCEPT !.valoracion[t.sigVal] =
                      [id_intercambio |-> c.id, id_autor |-> c.uid,
                       id_destinatario |-> c.dest, puntuacion |-> c.punt],
                    !.sigVal = @ + 1,
                    !.usuario[c.dest].creditos =
                       IF c.punt = MaxPuntuacion THEN @ + 1 ELSE @],
          c, "valorada")

\* INSERT INTO valoracion (id_intercambio, id_autor, id_destinatario, puntuacion, ..)
valorar_insert(t, c) ==
  Termina([t EXCEPT !.valoracion[t.sigVal] =
                      [id_intercambio |-> c.id, id_autor |-> c.uid,
                       id_destinatario |-> c.dest, puntuacion |-> c.punt],
                    !.sigVal = @ + 1],
          c, "valorada")

(* ------------------------------ requests ------------------------------ *)

\* guard = admin_cannot_use(..): is_admin() reads session["rol"], which login
\* stored; the routes that call it
admin_cannot_use(c) ==
  /\ c.pc \in {"sol_servicio", "dir_validar", "ac_consulta", "val_consulta"}
  /\ c.sesion_rol = "admin"

\* the statement at c.pc
paso(t, c) ==
  CASE admin_cannot_use(c)   -> Termina(t, c, "solo_moderar")
    [] c.pc = "est_consulta" -> estado_consulta(t, c)
    [] c.pc = "est_saldo"    -> estado_saldo(t, c)
    [] c.pc = "est_debito"   -> estado_debito(t, c)
    [] c.pc = "est_abono"    -> estado_abono(t, c)
    [] c.pc = "est_update"   -> estado_update(t, c)
    [] c.pc = "sol_servicio" -> solicitar_servicio(t, c)
    [] c.pc = "sol_existe"   -> solicitar_existe(t, c)
    [] c.pc = "sol_insert"   -> solicitar_insert(t, c)
    [] c.pc = "ser_consulta" -> servicios_consulta(t, c)
    [] c.pc = "ser_update"   -> servicios_update(t, c)
    [] c.pc = "dir_validar"  -> directo_validar(t, c)
    [] c.pc = "dir_dup"      -> directo_dup(t, c)
    [] c.pc = "dir_mine"     -> directo_mine(t, c)
    [] c.pc = "dir_servicio" -> directo_servicio(t, c)
    [] c.pc = "dir_insert"   -> directo_insert(t, c)
    [] c.pc = "ac_consulta"  -> aceptar_consulta(t, c)
    [] c.pc = "ac_servicios" -> aceptar_servicios(t, c)
    [] c.pc = "ac_update"    -> aceptar_update(t, c)
    [] c.pc = "adm_update"   -> admin_user_edit(t, c)
    [] c.pc = "ed_consulta"  -> editar_consulta(t, c)
    [] c.pc = "ed_mine"      -> editar_mine(t, c)
    [] c.pc = "ed_update"    -> editar_update(t, c)
    [] c.pc = "del_consulta" -> eliminar_consulta(t, c)
    [] c.pc = "del_delete"   -> eliminar_delete(t, c)
    [] c.pc = "val_consulta" -> valorar_consulta(t, c)
    [] c.pc = "val_ya"       -> valorar_ya(t, c)
    [] c.pc = "val_insert"   -> valorar_insert(t, c)

\* the handler from c.pc to its return, nothing running in between
RECURSIVE corre(_, _)
corre(t, c) ==
  IF c.pc = "fin" THEN [t |-> t, c |-> c]
  ELSE LET r == paso(t, c) IN corre(r.t, r.c)

\* POST /intercambios/estado/<id> by uid with form field estado = nuevo
PeticionesEstado ==
  {[Vacio EXCEPT !.pc = "est_consulta", !.op = "estado", !.uid = uid, !.id = id,
                 !.nuevo = nuevo] :
     uid \in Sesiones, id \in Ids, nuevo \in EstadosSet \cup {EstadoAjeno}}

\* POST /intercambios/solicitar/<id_servicio> by uid
PeticionesSolicitar ==
  {[Vacio EXCEPT !.pc = "sol_servicio", !.op = "solicitar", !.uid = uid, !.serv = s] :
     uid \in Usuarios, s \in Servicios}

\* POST /intercambios/create-direct by uid: proveedor_id, id_servicio_solicitado,
\* modo and (modo "servicio") id_servicio_contraparte of an existing service
\* (offering a service created on the spot is not drawn)
PeticionesDirecto ==
  {[Vacio EXCEPT !.pc = "dir_validar", !.op = "directo", !.uid = uid, !.prov = prov,
                 !.serv = s, !.modo = m[1], !.contra = m[2]] :
     uid \in Usuarios, prov \in Usuarios, s \in Servicios,
     m \in {<<"creditos", NULL>>} \cup {<<"servicio", o>> : o \in Servicios}}

\* POST /intercambios/create-direct by uid with modo "servicio" and no
\* id_servicio_contraparte: nuevo_creditos_hora of the service to create, one
\* value out of range and one in range
PeticionesDirectoNuevo ==
  {[Vacio EXCEPT !.pc = "dir_validar", !.op = "directo", !.uid = uid, !.prov = prov,
                 !.serv = s, !.modo = "servicio", !.contra = NULL,
                 !.nuevo_creditos_hora = h] :
     uid \in Usuarios, prov \in Usuarios, s \in Servicios, h \in {0, CostoInicial}}

\* POST /intercambios/aceptar/<id> and /intercambios/edit/<id> by uid, naming
\* as id_servicio_contraparte a service beyond those of Init
PeticionesOfrecerNuevo ==
  {[Vacio EXCEPT !.pc = h[1], !.op = h[2], !.uid = uid, !.id = id,
                 !.modo = "servicio", !.contra = o] :
     h \in {<<"ac_consulta", "aceptar">>, <<"ed_consulta", "editar">>},
     uid \in Usuarios, id \in 1..MaxInter, o \in ServIds \ Servicios}

\* POST /intercambios/aceptar/<id> by uid: modo and id_servicio_contraparte
PeticionesAceptar ==
  {[Vacio EXCEPT !.pc = "ac_consulta", !.op = "aceptar", !.uid = uid, !.id = id,
                 !.modo = m[1], !.contra = m[2]] :
     uid \in Sesiones, id \in Ids,
     m \in {<<"creditos", NULL>>} \cup {<<"servicio", o>> : o \in Servicios}}

\* POST /intercambios/edit/<id> by uid: modo and id_servicio_contraparte
PeticionesEditar ==
  {[Vacio EXCEPT !.pc = "ed_consulta", !.op = "editar", !.uid = uid, !.id = id,
                 !.modo = m[1], !.contra = m[2]] :
     uid \in Sesiones, id \in Ids,
     m \in {<<"creditos", NULL>>} \cup {<<"servicio", o>> : o \in Servicios}}

\* POST /intercambios/delete/<id> by uid
PeticionesEliminar ==
  {[Vacio EXCEPT !.pc = "del_consulta", !.op = "eliminar", !.uid = uid, !.id = id,
                 !.fk = fk] :
     uid \in Sesiones, id \in Ids, fk \in ClavesForaneas}

\* POST /valoraciones/create/<id> by uid: puntuacion
PeticionesValorar ==
  {[Vacio EXCEPT !.pc = "val_consulta", !.op = "valorar", !.uid = uid, !.id = id,
                 !.punt = pt] :
     uid \in Sesiones, id \in Ids, pt \in Puntuaciones}

\* POST /admin/users/edit/<id> by an administrator: creditos
PeticionesAdmin ==
  {[Vacio EXCEPT !.pc = "adm_update", !.op = "admin_user_edit", !.id = id,
                 !.creditos = cr] :
     id \in Usuarios, cr \in CreditosAdmin}

\* values typed into the creditos_hora field of the service form: one that
\* valid_int refuses, one below and one above the cost services start with
CostosEditados == {0, 1, 5}

\* POST /servicios/edit/<id> by uid: creditos_hora
PeticionesServicio ==
  {[Vacio EXCEPT !.pc = "ser_consulta", !.op = "servicios_edit", !.uid = uid, !.id = id,
                 !.creditos_hora = h] :
     uid \in Usuarios, id \in Servicios, h \in CostosEditados}

\* the status changes the two trading users send with a target of ESTADOS
PeticionesCambio == {c \in PeticionesEstado : c.uid \in Usuarios /\ c.nuevo \in EstadosSet}

\* POST /admin/users/edit/<id> by an administrator: rol, with the credits the
\* panel shows for a new user
PeticionesRol ==
  {[Vacio EXCEPT !.pc = "adm_update", !.op = "admin_user_edit", !.id = id,
                 !.creditos = CreditosIniciales, !.rol = r] :
     id \in Usuarios, r \in Roles}

\* the requests of the routes guarded by admin_cannot_use, sent from a session
\* that logged in as administrator
PeticionesDeAdmin ==
  {[c EXCEPT !.sesion_rol = "admin"] :
     c \in PeticionesSolicitar \cup PeticionesAceptar \cup PeticionesValorar}

Peticiones ==
  PeticionesEstado \cup PeticionesSolicitar \cup PeticionesDirecto
    \cup PeticionesAceptar \cup PeticionesAdmin
    \cup PeticionesEditar \cup PeticionesEliminar \cup PeticionesValorar

\* the requests that create an exchange
PeticionesAlta == PeticionesSolicitar \cup PeticionesDirecto

\* requests in flight that will still insert an intercambio row
PorInsertar ==
  {q \in Procs : ctx[q].pc \in {"sol_existe", "sol_insert", "dir_dup", "dir_mine", "dir_insert"}}

\* requests in flight that will still insert a valoracion row
PorValorar == {q \in Procs : ctx[q].pc \in {"val_ya", "val_insert"}}

\* requests in flight that will still insert a servicio row
PorOfrecer ==
  {q \in Procs : /\ ctx[q].pc \in {"dir_dup", "dir_servicio"}
                 /\ ctx[q].modo = "servicio" /\ ctx[q].contra = NULL}

\* the model serves c only while the serials have a value left for it: max rows
\* for intercambio, MaxServ for servicio, MaxVal for valoracion
Admisible(c, max) ==
  /\ c.op \in {"solicitar", "directo"} => sigId + Cardinality(PorInsertar) <= max
  /\ (c.op = "directo" /\ c.modo = "servicio" /\ c.contra = NULL)
       => sigServ(T) + Cardinality(PorOfrecer) <= MaxServ
  /\ c.op = "valorar" => sigVal + Cardinality(PorValorar) <= MaxVal

Instala(t) ==
  /\ usuario' = t.usuario
  /\ servicio' = t.servicio
  /\ intercambio' = t.intercambio
  /\ sigId' = t.sigId
  /\ valoracion' = t.valoracion
  /\ sigVal' = t.sigVal
  /\ mov' = t.mov

\* a worker that has returned is free again
Libera(c) == IF c.pc = "fin" THEN Vacio ELSE c

\* a request reaches a free worker, which runs its first statement
Llega(p, c) ==
  /\ ctx[p].pc = "idle"
  /\ Admisible(c, MaxInter)
  /\ \E r \in {paso(T, c)} :
        /\ Instala(r.t)
        /\ ctx' = [ctx EXCEPT ![p] = Libera(r.c)]
  /\ UNCHANGED <<caidas, flash, vista>>

\* a worker runs the next statement of its request
Avanza(p) ==
  /\ ctx[p].pc # "idle"
  /\ \E r \in {paso(T, ctx[p])} :
        /\ Instala(r.t)
        /\ ctx' = [ctx EXCEPT ![p] = Libera(r.c)]
  /\ UNCHANGED <<caidas, flash, vista>>

\* a worker dies between two statements: what it committed stays committed
Caida(p) ==
  /\ ctx[p].pc # "idle"
  /\ caidas < MaxCaidas
  /\ caidas' = caidas + 1
  /\ ctx' = [ctx EXCEPT ![p] = Vacio]
  /\ UNCHANGED <<usuario, servicio, intercambio, sigId, valoracion, sigVal, mov, flash,
                  vista>>

\* a request of the set S reaches worker p
Recibe(p, S) == \E c \in S : Llega(p, c)

Next ==
  \/ \E p \in Procs : Recibe(p, PeticionesEstado)
  \/ \E p \in Procs : Recibe(p, PeticionesSolicitar)
  \/ \E p \in Procs : Recibe(p, PeticionesDirecto)
  \/ \E p \in Procs : Recibe(p, PeticionesAceptar)
  \/ \E p \in Procs : Recibe(p, PeticionesAdmin)
  \/ \E p \in Procs : Recibe(p, PeticionesEditar)
  \/ \E p \in Procs : Recibe(p, PeticionesEliminar)
  \/ \E p \in Procs : Avanza(p)
  \/ \E p \in Procs : Caida(p)

Spec == Init /\ [][Next]_vars

\* request c is served from its first statement to its return
Sirve(c, max) ==
  /\ Admisible(c, max)
  /\ \E r \in {corre(T, c)} :
        /\ flash' = r.c.res
        /\ Instala(r.t)
  /\ UNCHANGED <<ctx, caidas, vista>>

Atiende(c) == Sirve(c, MaxInter)

NextSerie ==
  \/ \E c \in PeticionesEstado : Atiende(c)
  \/ \E c \in PeticionesSolicitar : Atiende(c)
  \/ \E c \in PeticionesDirecto : Atiende(c)
  \/ \E c \in PeticionesAceptar : Atiende(c)
  \/ \E c \in PeticionesAdmin : Atiende(c)

SpecSerie == Init /\ [][NextSerie]_vars

\* the life of an exchange from its request to its ratings, its edit and its
\* deletion, served one request at a time
NextSerieValora ==
  \/ \E c \in PeticionesSolicitar : Atiende(c)
  \/ \E c \in PeticionesEstado : Atiende(c)
  \/ \E c \in PeticionesEditar : Atiende(c)
  \/ \E c \in PeticionesEliminar : Atiende(c)
  \/ \E c \in PeticionesValorar : Atiende(c)

SpecSerieValora == Init /\ [][NextSerieValora]_vars

\* a credit exchange from its request to its completion while the cost of the
\* service and the balances are edited, one request at a time
NextSerieCosto ==
  \/ \E c \in PeticionesSolicitar : Atiende(c)
  \/ \E c \in PeticionesCambio : Atiende(c)
  \/ \E c \in PeticionesServicio : Atiende(c)
  \/ \E c \in PeticionesAdmin : Atiende(c)

SpecSerieCosto == Init /\ [][NextSerieCosto]_vars

(* ------------------------------- roles -------------------------------- *)

\* session["rol"] = user["rol"] at login: a session holds the role 'admin' only
\* for a user who has it; the sessions of Init logged in as 'usuario'
AtiendeRol(c) ==
  /\ c.sesion_rol = "admin" => usuario[c.uid].rol = "admin"
  /\ Atiende(c)

\* creation, acceptance, status change and rating next to the role edits of the
\* administrator, one request at a time
NextSerieRol ==
  \/ \E c \in PeticionesSolicitar : AtiendeRol(c)
  \/ \E c \in PeticionesAceptar : AtiendeRol(c)
  \/ \E c \in PeticionesCambio : AtiendeRol(c)
  \/ \E c \in PeticionesValorar : AtiendeRol(c)
  \/ \E c \in PeticionesDeAdmin : AtiendeRol(c)
  \/ \E c \in PeticionesRol : AtiendeRol(c)

SpecSerieRol == Init /\ [][NextSerieRol]_vars

(* ------------------------- intercambios_list -------------------------- *)

\* the ids of the intercambio table, ORDER BY i.id_intercambio DESC
IdsDesc == [k \in 1..MaxFilas |-> MaxFilas + 1 - k]

\* the rows of a query_all of intercambios_list with their estados_permitidos:
\* those whose column campo is uid, the newest first
listado(t, uid, campo, es_proveedor) ==
  LET ids == SelectSeq(IdsDesc, LAMBDA i : Existe(t, i) /\ t.intercambio[i][campo] = uid)
  IN [k \in 1..Len(ids) |->
        [id |-> ids[k],
         estado |-> t.intercambio[ids[k]].estado,
         estados_permitidos |->
           allowed_states_for_user(t.intercambio[ids[k]].estado, es_proveedor)]]

\* enviados, recibidos and the two loops that fill estados_permitidos
intercambios_list(t, uid) ==
  [uid |-> uid,
   enviados  |-> listado(t, uid, "id_solicitante", FALSE),
   recibidos |-> listado(t, uid, "id_proveedor", TRUE)]

\* GET /intercambios by uid
Lista(uid) ==
  /\ vista' = intercambios_list(T, uid)
  /\ UNCHANGED <<usuario, servicio, intercambio, sigId, valoracion, sigVal, mov, ctx,
                  caidas, flash>>

\* the list of a user's exchanges, rendered between the requests that create
\* and move them, one request at a time
NextLista ==
  \/ \E c \in PeticionesSolicitar : Atiende(c)
  \/ \E c \in PeticionesEstado : Atiende(c)
  \/ \E uid \in Usuarios : Lista(uid)

SpecLista == Init /\ [][NextLista]_vars

\* the ways of setting the counter-service of an exchange, served one request
\* at a time
NextSerieContra ==
  \/ \E c \in PeticionesSolicitar : Atiende(c)
  \/ \E c \in PeticionesDirecto : Atiende(c)
  \/ \E c \in PeticionesDirectoNuevo : Atiende(c)
  \/ \E c \in PeticionesAceptar : Atiende(c)
  \/ \E c \in PeticionesEditar : Atiende(c)
  \/ \E c \in PeticionesOfrecerNuevo : Atiende(c)

SpecSerieContra == Init /\ [][NextSerieContra]_vars

\* a creation request reaches a free worker, which runs its first statement
Alta(p, c) ==
  /\ ctx[p].pc = "idle"
  /\ Admisible(c, MaxFilas)
  /\ \E r \in {paso(T, c)} :
        /\ Instala(r.t)
        /\ ctx' = [ctx EXCEPT ![p] = Libera(r.c)]
  /\ UNCHANGED <<caidas, flash, vista>>

\* only creation requests, run concurrently one statement at a time
NextAlta ==
  \/ \E p \in Procs : \E c \in PeticionesSolicitar : Alta(p, c)
  \/ \E p \in Procs : \E c \in PeticionesDirecto : Alta(p, c)
  \/ \E p \in Procs : Avanza(p)

SpecAlta == Init /\ [][NextAlta]_vars

AtiendeAlta(c) == Sirve(c, MaxFilas)

\* creation requests and status changes, served one at a time
NextSerieAlta ==
  \/ \E c \in PeticionesSolicitar : AtiendeAlta(c)
  \/ \E c \in PeticionesDirecto : AtiendeAlta(c)
  \/ \E c \in PeticionesCambio : AtiendeAlta(c)

SpecSerieAlta == Init /\ [][NextSerieAlta]_vars

\* rating submissions next to the requests that take an exchange to
\* 'completado', run concurrently one statement at a time
NextValora ==
  \/ \E p \in Procs : Recibe(p, PeticionesSolicitar)
  \/ \E p \in Procs : Recibe(p, PeticionesEstado)
  \/ \E p \in Procs : Recibe(p, PeticionesValorar)
  \/ \E p \in Procs : Avanza(p)

SpecValora == Init /\ [][NextValora]_vars

(* ============================== claims ================================ *)

\* the row a request addresses, and the roles of its actor in it
Fila(c) == intercambio[c.id]
EsParticipante(c) ==
  /\ Fila(c).estado \in EstadosSet
  /\ c.uid \in {Fila(c).id_solicitante, Fila(c).id_proveedor}
CostoDe(c) == servicio[Fila(c).id_servicio_solicitado].creditos_hora

RECURSIVE Suma(_, _)
Suma(f, S) == IF S = {} THEN 0 ELSE LET u == CHOOSE x \in S : TRUE
                                    IN f[u].creditos + Suma(f, S \ {u})
Total == Suma(usuario, Usuarios)

\* C1 (Spec): credits have been moved on behalf of an exchange if and only if
\* its status is 'completado': no state has a debit or a credit executed for an
\* exchange that is not 'completado', and no credit-mode exchange is
\* 'completado' without its debit and its credit.
C1_MovidoSiiCompletado ==
  \A i \in Ids :
     /\ (mov[i].debitos > 0 \/ mov[i].abonos > 0) => intercambio[i].estado = "completado"
     /\ (intercambio[i].estado = "completado"
           /\ intercambio[i].id_servicio_contraparte = NULL)
          => (mov[i].debitos > 0 /\ mov[i].abonos > 0)

\* C2 (Spec): with no request dying, concurrent 'completado' requests for one
\* exchange settle it once: at most one debit and at most one credit are
\* executed for it.
C2_UnaSolaLiquidacion ==
  caidas = 0 => \A i \in Ids : mov[i].debitos <= 1 /\ mov[i].abonos <= 1

\* C3 (Spec): with no request dying, no user's credit balance is ever negative.
C3_SaldoNoNegativo ==
  caidas = 0 => \A u \in Usuarios : usuario[u].creditos >= 0

\* C4 (Spec): every change of the persisted status of an exchange is an edge of
\* TRANSICIONES (so terminal statuses never change and none moves back).
C4_SoloAristas ==
  [][\A i \in Ids :
       (intercambio[i].estado \in EstadosSet
          /\ intercambio'[i].estado # intercambio[i].estado)
         => intercambio'[i].estado \in TRANSICIONES[intercambio[i].estado]]_vars

\* what serving request c now, from its first statement to its return with
\* nothing running in between, leaves: the tables (.t) and the context (.c)
Servida(c) == corre(T, c)

\* serving c left every exchange and every balance as it was
SinEfecto(r) == r.t.intercambio = intercambio /\ r.t.usuario = usuario

\* C5 as stated (SpecSerie): a status-change request by a participant whose
\* (current, target) pair is not in TRANSICIONES is rejected as an illegal
\* transition and changes neither the exchanges nor the balances.
C5_Original ==
  \A c \in PeticionesEstado :
     (EsParticipante(c) /\ c.nuevo \in EstadosSet
        /\ c.nuevo \notin TRANSICIONES[Fila(c).estado])
       => (Servida(c).c.res = "transicion_no_permitida" /\ SinEfecto(Servida(c)))

\* C5 amended (SpecSerie): a status-change request by a participant whose
\* (current, target) pair is not in TRANSICIONES changes neither the exchanges
\* nor the balances; it is rejected as an illegal transition when the target
\* differs from the current status and reported as a no-op when they are equal.
C5_ParNoPermitido ==
  \A c \in PeticionesEstado :
     (EsParticipante(c) /\ c.nuevo \in EstadosSet
        /\ c.nuevo \notin TRANSICIONES[Fila(c).estado])
       => /\ Servida(c).c.res = IF c.nuevo = Fila(c).estado THEN "sin_cambio"
                                ELSE "transicion_no_permitida"
          /\ SinEfecto(Servida(c))

\* C5 witness: an illegal-transition rejection has just been answered for a
\* request on an existing exchange.
C5_Testigo ==
  /\ flash = "transicion_no_permitida"
  /\ \E i \in Ids : intercambio[i].estado \in EstadosSet

\* C6 (SpecSerie): a successful completion of a credit-mode exchange leaves the
\* requester with its balance minus the cost of the requested service, and
\* leaves the sum of the requester's and the provider's balances unchanged.
C6_Conservacion ==
  \A c \in PeticionesEstado :
     (EsParticipante(c) /\ c.nuevo = "completado"
        /\ Fila(c).estado = "en_progreso"
        /\ Fila(c).id_servicio_contraparte = NULL
        /\ Servida(c).t.intercambio[c.id].estado = "completado")
       => LET sol == Fila(c).id_solicitante
              prov == Fila(c).id_proveedor
              despues == Servida(c).t.usuario
          IN /\ despues[sol].creditos = usuario[sol].creditos - CostoDe(c)
             /\ despues[sol].creditos + despues[prov].creditos
                  = usuario[sol].creditos + usuario[prov].creditos

\* C7 (SpecSerie): when the provider asks en_progreso -> completado on a
\* credit-mode exchange whose requester holds less than the cost, the answer is
\* insufficient funds, no balance changes and the status stays 'en_progreso'.
C7_SaldoInsuficiente ==
  \A c \in PeticionesEstado :
     (c.nuevo = "completado"
        /\ Fila(c).estado = "en_progreso"
        /\ c.uid = Fila(c).id_proveedor
        /\ Fila(c).id_servicio_contraparte = NULL
        /\ usuario[Fila(c).id_solicitante].creditos < CostoDe(c))
       => /\ Servida(c).c.res = "saldo_insuficiente"
          /\ SinEfecto(Servida(c))
          /\ Servida(c).t.intercambio[c.id].estado = "en_progreso"

\* C7 witness: insufficient funds has just been answered and a credit-mode
\* exchange is still 'en_progreso' with a requester that cannot pay it.
C7_Testigo ==
  /\ flash = "saldo_insuficiente"
  /\ \E i \in Ids :
       /\ intercambio[i].estado = "en_progreso"
       /\ intercambio[i].id_servicio_contraparte = NULL
       /\ usuario[intercambio[i].id_solicitante].creditos
            < servicio[intercambio[i].id_servicio_solicitado].creditos_hora

\* C8 (SpecSerie): the provider's completion of an 'en_progreso' exchange that
\* has a counter-service succeeds whatever the requester's balance is and
\* changes no balance.
C8_Trueque ==
  \A c \in PeticionesEstado :
     (c.nuevo = "completado"
        /\ Fila(c).estado = "en_progreso"
        /\ c.uid = Fila(c).id_proveedor
        /\ Fila(c).id_servicio_contraparte # NULL)
       => /\ Servida(c).c.res = "actualizado"
          /\ Servida(c).t.intercambio[c.id].estado = "completado"
          /\ Servida(c).t.usuario = usuario

\* C8 witness: a barter exchange has just been completed although its requester
\* holds less than the cost of the requested service.
C8_Testigo ==
  /\ flash = "actualizado"
  /\ \E i \in Ids :
       /\ intercambio[i].estado = "completado"
       /\ intercambio[i].id_servicio_contraparte # NULL
       /\ mov[i].debitos = 0 /\ mov[i].abonos = 0
       /\ usuario[intercambio[i].id_solicitante].creditos
            < servicio[intercambio[i].id_servicio_solicitado].creditos_hora

\* C9 (Spec): the transfer is never partially applied: no statement other than
\* the administrator's credit edit changes the sum of all balances.
C9_TransferenciaEntera ==
  [][(\E p \in Procs : Recibe(p, PeticionesAdmin)) \/ Total' = Total]_vars

\* C10 (SpecSerie): a request by the requester of an exchange to move it to
\* 'confirmado', 'en_progreso' or 'completado' (a status change to one of them,
\* or an acceptance) changes neither the status nor any balance.
C10_SoloProveedorAvanza ==
  \A c \in PeticionesEstado \cup PeticionesAceptar :
     (Fila(c).estado \in EstadosSet
        /\ c.uid = Fila(c).id_solicitante
        /\ (c.op = "aceptar" \/ c.nuevo \in Avances))
       => SinEfecto(Servida(c))

\* C11 (SpecSerie): a request by the requester or by the provider to move a
\* 'pendiente', 'confirmado' or 'en_progreso' exchange to 'cancelado' succeeds,
\* sets the status to 'cancelado' and leaves every balance unchanged; a cancel
\* request on a 'completado' exchange is rejected and changes nothing.
C11_Cancelar ==
  \A c \in PeticionesEstado :
     (EsParticipante(c) /\ c.nuevo = "cancelado")
       => /\ Fila(c).estado \in Activos
               => /\ Servida(c).c.res = "actualizado"
                  /\ Servida(c).t.intercambio[c.id].estado = "cancelado"
                  /\ Servida(c).t.usuario = usuario
          /\ Fila(c).estado = "completado"
               => /\ Servida(c).c.res = "transicion_no_permitida"
                  /\ SinEfecto(Servida(c))

\* C11 witness: a cancel request has just succeeded on an exchange.
C11_Testigo ==
  /\ flash = "actualizado"
  /\ \E i \in Ids : intercambio[i].estado = "cancelado"

\* the requests that address an exchange by its id
PeticionesSobre ==
  PeticionesEstado \cup PeticionesAceptar \cup PeticionesEditar
    \cup PeticionesEliminar \cup PeticionesValorar

\* C12 (SpecSerieValora): a status change, acceptance, counter-service edit, deletion
\* or rating submission by a user who is neither the requester nor the provider
\* of the exchange leaves the exchanges, the balances and the ratings unchanged.
C12_AjenoNoCambia ==
  \A c \in PeticionesSobre :
     (Fila(c).estado \in EstadosSet /\ ~EsParticipante(c))
       => /\ SinEfecto(Servida(c))
          /\ Servida(c).t.valoracion = valoracion

\* C12 witness: the deletion of an existing exchange has just been refused to a
\* user who takes no part in it.
C12_Testigo ==
  /\ flash = "sin_permiso_eliminar"
  /\ \E i \in Ids : intercambio[i].estado \in EstadosSet

\* C13 (SpecSerie): the failure of a status-change request is decided in this
\* order: a non-participant gets not-authorized; a target equal to the current
\* status gets the no-op report; a target not reachable from the current status
\* gets illegal-transition, also for the requester; a reachable forward target
\* asked by the requester gets not-authorized (provider only).
C13_OrdenDeFallos ==
  \A c \in PeticionesEstado :
     (Fila(c).estado \in EstadosSet /\ c.nuevo \in EstadosSet)
       => IF ~EsParticipante(c) THEN Servida(c).c.res = "sin_permiso"
          ELSE IF c.nuevo = Fila(c).estado THEN Servida(c).c.res = "sin_cambio"
          ELSE IF c.nuevo \notin TRANSICIONES[Fila(c).estado]
            THEN Servida(c).c.res = "transicion_no_permitida"
          ELSE (c.nuevo \in Avances /\ c.uid = Fila(c).id_solicitante)
                 => Servida(c).c.res = "solo_proveedor"

\* C14 (SpecSerie): a status-change request by a participant whose target
\* equals the current status, 'completado' included, is answered as a no-op and
\* changes neither the status nor any balance.
C14_MismoEstado ==
  \A c \in PeticionesEstado :
     (EsParticipante(c) /\ c.nuevo = Fila(c).estado)
       => (Servida(c).c.res = "sin_cambio" /\ SinEfecto(Servida(c)))

\* C14 witness: the no-op report has just been answered on a 'completado'
\* exchange.
C14_Testigo ==
  /\ flash = "sin_cambio"
  /\ \E i \in Ids : intercambio[i].estado = "completado"

\* C15 (SpecSerie): every exchange has a requester different from its
\* provider: no creation request leaves an exchange in which the acting user is
\* also the provider.
C15_SolicitanteNoProveedor ==
  \A i \in Ids :
     intercambio[i].estado \in EstadosSet
       => intercambio[i].id_solicitante # intercambio[i].id_proveedor

\* the (requested service, requester, provider) triple of row i
Triple(i) ==
  <<intercambio[i].id_servicio_solicitado, intercambio[i].id_solicitante,
    intercambio[i].id_proveedor>>

\* C16 (SpecAlta): at most one exchange in an active status exists for the same
\* (requested service, requester, provider), also after two concurrent creation
\* requests for that triple.
C16_UnActivoPorTriple ==
  \A i, j \in Ids :
     (i # j /\ intercambio[i].estado \in Activos /\ intercambio[j].estado \in Activos)
       => Triple(i) # Triple(j)

\* the provider a creation request names, and the triple it asks for
ProveedorDe(c) == IF c.op = "solicitar" THEN servicio[c.serv].id_usuario ELSE c.prov
TripleDe(c) == <<c.serv, c.uid, ProveedorDe(c)>>

\* the checks a creation request passes before the duplicate check, and after it
SeleccionValida(c) ==
  IF c.op = "solicitar" THEN servicio[c.serv].id_usuario # c.uid
  ELSE servicio[c.serv].id_usuario = c.prov
OfertaValida(c) ==
  (c.op = "directo" /\ c.modo = "servicio") => servicio[c.contra].id_usuario = c.uid

\* C17 (SpecSerieAlta): served on its own, a creation request for a triple is
\* rejected as duplicate and creates nothing exactly when an exchange of that
\* triple is active; 'completado' and 'cancelado' exchanges of the triple do not
\* block it, and the new exchange is created 'pendiente'.
C17_DuplicadoActivo ==
  \A c \in PeticionesAlta :
     (sigId <= MaxFilas /\ SeleccionValida(c))
       => LET r == Servida(c)
          IN IF \E i \in Ids : intercambio[i].estado \in Activos /\ Triple(i) = TripleDe(c)
             THEN /\ r.c.res = "ya_activa"
                  /\ r.t.intercambio = intercambio
             ELSE OfertaValida(c)
                    => /\ r.c.res = "creado"
                       /\ r.t.intercambio[sigId].estado = "pendiente"
                       /\ <<r.t.intercambio[sigId].id_servicio_solicitado,
                             r.t.intercambio[sigId].id_solicitante,
                             r.t.intercambio[sigId].id_proveedor>> = TripleDe(c)
                       /\ \A i \in Ids \ {sigId} : r.t.intercambio[i] = intercambio[i]

\* C17 witness: an exchange has just been created 'pendiente' for the triple of
\* an exchange that is 'completado' or 'cancelado'.
C17_Testigo ==
  /\ flash = "creado"
  /\ \E i, j \in Ids :
        /\ i < j
        /\ intercambio[i].estado \in {"completado", "cancelado"}
        /\ intercambio[j].estado = "pendiente"
        /\ Triple(i) = Triple(j)

\* C18 (SpecSerie): the persisted status of every exchange is a member of
\* ESTADOS, and a status-change request with any other target returns on its
\* first step, before the exchange is read, with nothing changed.
C18_EstadoValido ==
  /\ \A i \in Ids : intercambio[i].estado \in EstadosSet \cup {SinFila.estado}
  /\ \A c \in PeticionesEstado :
        c.nuevo \notin EstadosSet
          => /\ paso(T, c) = Termina(T, c, "estado_invalido")
             /\ SinEfecto(Servida(c))

\* C18 witness: a target outside ESTADOS has just been refused for an existing
\* exchange.
C18_Testigo ==
  /\ flash = "estado_invalido"
  /\ \E i \in Ids : intercambio[i].estado \in EstadosSet

\* C19 (SpecValora): at most one rating exists for each (exchange, author), also
\* after two concurrent submissions by the same author for the same exchange.
C19_UnaValoracionPorAutor ==
  \A v, w \in ValIds :
     (v # w /\ valoracion[v] # SinValoracion /\ valoracion[w] # SinValoracion)
       => <<valoracion[v].id_intercambio, valoracion[v].id_autor>>
            # <<valoracion[w].id_intercambio, valoracion[w].id_autor>>

Nuevas(r) == {v \in ValIds : valoracion[v] = SinValoracion /\ r.t.valoracion[v] # SinValoracion}

\* C21 (SpecSerieValora): a rating submission by a participant of an exchange
\* whose status is not 'completado' is answered not-eligible and creates no
\* rating, whatever the score.
C21_NoCompletado ==
  \A c \in PeticionesValorar :
     (EsParticipante(c) /\ Fila(c).estado # "completado")
       => /\ Servida(c).c.res = "no_completado"
          /\ Servida(c).t.valoracion = valoracion

\* C21 witness: not-eligible has just been answered on an existing exchange
\* that is not 'completado'.
C21_Testigo ==
  /\ flash = "no_completado"
  /\ \E i \in Ids : intercambio[i].estado \in EstadosSet \ {"completado"}

\* C22 (SpecSerieValora): on a 'completado' exchange a participant without a
\* rating of it who submits a score in 1..5 succeeds and the rating is
\* recorded, whether or not the other participant has rated it.
C22_AmbosValoran ==
  \A c \in PeticionesValorar :
     (/\ EsParticipante(c)
      /\ Fila(c).estado = "completado"
      /\ c.punt \in MinPuntuacion..MaxPuntuacion
      /\ \A v \in ValIds : ~(/\ valoracion[v].id_intercambio = c.id
                               /\ valoracion[v].id_autor = c.uid)
      /\ sigVal <= MaxVal)
       => /\ Servida(c).c.res = "valorada"
          /\ \E v \in Nuevas(Servida(c)) :
                /\ Servida(c).t.valoracion[v].id_intercambio = c.id
                /\ Servida(c).t.valoracion[v].id_autor = c.uid
                /\ Servida(c).t.valoracion[v].puntuacion = c.punt

\* C22 witness: a rating has just been recorded and the exchange holds the
\* ratings of two different authors.
C22_Testigo ==
  /\ flash = "valorada"
  /\ \E v, w \in ValIds :
        /\ valoracion[v] # SinValoracion /\ valoracion[w] # SinValoracion
        /\ valoracion[v].id_intercambio = valoracion[w].id_intercambio
        /\ valoracion[v].id_autor # valoracion[w].id_autor

\* C23 (SpecSerie): every rating valoraciones_create records has as
\* destinatario the participant of the exchange who is not the author: the
\* provider for the requester, the requester for the provider, never the author.
C23_DestinatarioEsElOtro ==
  \A c \in PeticionesValorar :
     \A v \in Nuevas(Servida(c)) :
        LET fila == Servida(c).t.valoracion[v]
        IN /\ fila.id_autor = c.uid
           /\ fila.id_destinatario # fila.id_autor
           /\ fila.id_autor = Fila(c).id_solicitante
                => fila.id_destinatario = Fila(c).id_proveedor
           /\ fila.id_autor = Fila(c).id_proveedor
                => fila.id_destinatario = Fila(c).id_solicitante

\* C24 (SpecSerieValora): a rating submission, accepted or rejected, changes no
\* balance, no exchange and no service, and adds at most one rating while
\* leaving the ratings that exist as they are.
C24_SoloAgregaValoracion ==
  \A c \in PeticionesValorar :
     sigVal <= MaxVal
       => /\ SinEfecto(Servida(c))
          /\ Servida(c).t.servicio = servicio
          /\ Cardinality(Nuevas(Servida(c))) <= 1
          /\ \A v \in ValIds \ Nuevas(Servida(c)) :
                Servida(c).t.valoracion[v] = valoracion[v]

\* C24 witness: a rating has just been recorded.
C24_Testigo ==
  /\ flash = "valorada"
  /\ \E v \in ValIds : valoracion[v] # SinValoracion /\ valoracion[v].puntuacion = MaxPuntuacion

\* C26 (SpecSerieValora): an exchange is deleted only while its status is
\* 'pendiente' or 'cancelado'; one that has left 'pendiente' is not deleted
\* unless it was cancelled first.
C26_SoloPendienteOCancelado ==
  [][\A i \in Ids :
       (intercambio[i] # SinFila /\ intercambio'[i] = SinFila)
         => intercambio[i].estado \in {"pendiente", "cancelado"}]_vars

C30_ValoracionDeCompletado ==
  \A v \in ValIds :
     valoracion[v] # SinValoracion
       => /\ Existe(T, valoracion[v].id_intercambio)
          /\ intercambio[valoracion[v].id_intercambio].estado = "completado"

\* C28 (SpecSerieContra): the counter-service of an exchange, when set, is a
\* service owned by the requester of that exchange, whether it was set by
\* intercambios_create_direct (with a service that existed or one created on
\* the spot), by intercambios_edit or by intercambios_aceptar.
C28_ContraparteDelSolicitante ==
  \A i \in Ids :
     (intercambio[i] # SinFila /\ intercambio[i].id_servicio_contraparte # NULL)
       => /\ intercambio[i].id_servicio_contraparte \in ServIds
          /\ servicio[intercambio[i].id_servicio_contraparte].id_usuario
               = intercambio[i].id_solicitante

\* C28 witness: an exchange has just been created with, as counter-service, a
\* service created on the spot.
C28_Testigo ==
  /\ flash = "creado"
  /\ \E i \in Ids :
        /\ intercambio[i] # SinFila
        /\ intercambio[i].id_servicio_contraparte \in ServIds \ Servicios

\* C29 (SpecSerieContra): the provider of every exchange is the owner of its
\* requested service, and no step changes the provider or the requested
\* service of an exchange that exists.
C29_ProveedorFijo ==
  [][\A i \in Ids :
       intercambio'[i] # SinFila
         => /\ servicio'[intercambio'[i].id_servicio_solicitado].id_usuario
                 = intercambio'[i].id_proveedor
            /\ intercambio[i] # SinFila
                 => /\ intercambio'[i].id_proveedor = intercambio[i].id_proveedor
                    /\ intercambio'[i].id_servicio_solicitado
                         = intercambio[i].id_servicio_solicitado]_vars

\* C29 witness: an exchange created through create-direct has just been
\* accepted with a counter-service, or had its offer edited.
C29_Testigo ==
  /\ flash \in {"aceptado", "editado"}
  /\ \E i \in Ids :
        /\ intercambio[i] # SinFila
        /\ intercambio[i].id_servicio_contraparte # NULL

\* position of a state in the canonical order ESTADOS
Posicion(e) == CHOOSE k \in 1..Len(ESTADOS) : ESTADOS[k] = e

\* the list l is what the claim allows for the current state actual and the
\* provider flag
Conforme(l, actual, es_proveedor) ==
  LET dentro == {l[k] : k \in 1..Len(l)}
  IN /\ actual \in dentro
     /\ actual \in {"pendiente", "confirmado", "en_progreso"} => "cancelado" \in dentro
     /\ \A e \in dentro :
          \/ e = actual
          \/ e = "cancelado" /\ actual \in {"pendiente", "confirmado", "en_progreso"}
          \/ /\ e \in {"confirmado", "en_progreso", "completado"}
             /\ es_proveedor
             /\ e \in TRANSICIONES[actual]
     /\ dentro \subseteq EstadosSet
     /\ \A j, k \in 1..Len(l) : j < k => Posicion(l[j]) < Posicion(l[k])

\* C25 (SpecLista): for every state of the enumeration and both values of the
\* provider flag, allowed_states_for_user returns a list that holds the current
\* state, holds 'cancelado' when the current state is active, holds a forward
\* target other than the current state only for the provider and only if
\* TRANSICIONES allows it, holds nothing else, and is in the canonical order
\* without duplicates; so is every list that GET /intercambios has rendered.
C25_ListaDeDestinos ==
  /\ \A actual \in EstadosSet, es_proveedor \in BOOLEAN :
        Conforme(allowed_states_for_user(actual, es_proveedor), actual, es_proveedor)
  /\ \A k \in 1..Len(vista.enviados) :
        Conforme(vista.enviados[k].estados_permitidos, vista.enviados[k].estado, FALSE)
  /\ \A k \in 1..Len(vista.recibidos) :
        Conforme(vista.recibidos[k].estados_permitidos, vista.recibidos[k].estado, TRUE)

\* C25 witness: the provider's list shows an exchange in progress with the
\* targets en_progreso, completado, cancelado, in that order.
C25_Testigo ==
  \E k \in 1..Len(vista.recibidos) :
     /\ vista.recibidos[k].estado = "en_progreso"
     /\ vista.recibidos[k].estados_permitidos = <<"en_progreso", "completado", "cancelado">>

\* worker q serves a completion that has already debited user u and has not
\* returned yet
YaDebito(q, u) ==
  /\ ctx[q].op = "estado"
  /\ ctx[q].pc \in {"est_abono", "est_update"}
  /\ ctx[q].nuevo = "completado"
  /\ ctx[q].contra = NULL
  /\ ctx[q].sol = u

\* C31 (Spec): no balance update is lost: when an administrator credit edit
\* lands on a user while a completion that has debited that user is still being
\* served, the balance left by the edit reflects both, the value the
\* administrator wrote and the debit.
C31_SinActualizacionPerdida ==
  [][\A p, q \in Procs : \A c \in PeticionesAdmin :
       (Llega(p, c) /\ c.creditos >= MinCreditosAdmin /\ YaDebito(q, c.id))
         => usuario'[c.id].creditos = c.creditos - ctx[q].costo]_vars

\* C32 (SpecSerieRol): no user whose role is 'admin' is the requester or the
\* provider of an exchange or the author of a rating, whatever creations,
\* acceptances, rating submissions and role edits were served.
C32_AdminNoParticipa ==
  /\ \A i \in Ids :
        intercambio[i] # SinFila
          => /\ usuario[intercambio[i].id_solicitante].rol # "admin"
             /\ usuario[intercambio[i].id_proveedor].rol # "admin"
  /\ \A v \in ValIds :
        valoracion[v] # SinValoracion => usuario[valoracion[v].id_autor].rol # "admin"

\* C33 (SpecSerieContra): an acceptance changes something only when the actor is the
\* provider and the exchange is 'pendiente'; then mode 'creditos' sets
\* 'confirmado' and clears the counter-service, and any other mode sets
\* 'confirmado' and the chosen counter-service if the requester owns that
\* service and changes nothing otherwise; no balance ever changes.
C33_Aceptacion ==
  \A c \in PeticionesAceptar :
     LET r == Servida(c)
         f == Fila(c)
     IN /\ r.t.usuario = usuario
        /\ \A i \in Ids \ {c.id} : r.t.intercambio[i] = intercambio[i]
        /\ IF ~(f.estado = "pendiente" /\ f.id_proveedor = c.uid)
           THEN r.t.intercambio[c.id] = f
           ELSE IF c.modo = "creditos"
           THEN r.t.intercambio[c.id] =
                  [f EXCEPT !.estado = "confirmado", !.id_servicio_contraparte = NULL]
           ELSE IF servicio[c.contra].id_usuario = f.id_solicitante
           THEN r.t.intercambio[c.id] =
                  [f EXCEPT !.estado = "confirmado", !.id_servicio_contraparte = c.contra]
           ELSE r.t.intercambio[c.id] = f

\* C33 witness: an acceptance with a service of the requester has just
\* confirmed an exchange.
C33_Testigo ==
  /\ flash = "aceptado"
  /\ \E i \in Ids :
        /\ intercambio[i].estado = "confirmado"
        /\ intercambio[i].id_servicio_contraparte # NULL
        /\ intercambio[i].id_solicitante # intercambio[i].id_proveedor

\* C34 (Spec): the settlement mode is fixed once an exchange has left
\* 'pendiente': no step changes the counter-service of an exchange whose status
\* is 'confirmado', 'en_progreso', 'completado' or 'cancelado', however edits,
\* acceptances and status changes interleave.
C34_ModoFijo ==
  [][\A i \in Ids :
       (intercambio[i].estado \in EstadosSet \ {"pendiente"} /\ intercambio'[i] # SinFila)
         => intercambio'[i].id_servicio_contraparte
              = intercambio[i].id_servicio_contraparte]_vars

\* the entries GET /intercambios shows to the session of c for the exchange of c
EntradasDe(c) ==
  LET v == intercambios_list(T, c.uid)
  IN {x \in {v.enviados[k] : k \in 1..Len(v.enviados)}
               \cup {v.recibidos[k] : k \in 1..Len(v.recibidos)} : x.id = c.id}

\* settling the exchange of c cannot fail: barter, or the requester can pay
LiquidacionSegura(c) ==
  \/ Fila(c).id_servicio_contraparte # NULL
  \/ usuario[Fila(c).id_solicitante].creditos >= CostoDe(c)

\* C35 (SpecSerie): the list agrees with the enforcement: for every status and
\* every participant, a target other than the current status is in the list
\* shown to that participant exactly when intercambios_estado accepts it from
\* that participant, provided the settlement cannot fail.
C35_ListaYControl ==
  \A c \in PeticionesEstado :
     (EsParticipante(c) /\ c.nuevo \in EstadosSet \ {Fila(c).estado}
        /\ LiquidacionSegura(c))
       => \A x \in EntradasDe(c) :
             (\E k \in 1..Len(x.estados_permitidos) : x.estados_permitidos[k] = c.nuevo)
               <=> Servida(c).c.res = "actualizado"

\* C36 (SpecSerieCosto): a completion of a credit exchange moves the cost the
\* requested service has when the completion is requested, also after the cost
\* was edited: the balance of the requester is checked against that cost, and
\* the requester is debited and the provider credited that cost.
C36_CostoVigente ==
  \A c \in PeticionesCambio :
     LET r == Servida(c)
         f == Fila(c)
         costo == servicio[f.id_servicio_solicitado].creditos_hora
     IN (f.estado = "en_progreso" /\ c.nuevo = "completado" /\ c.uid = f.id_proveedor
           /\ f.id_servicio_contraparte = NULL)
          => IF usuario[f.id_solicitante].creditos < costo
             THEN r.c.res = "saldo_insuficiente" /\ SinEfecto(r)
             ELSE /\ r.c.res = "actualizado"
                  /\ r.t.intercambio[c.id].estado = "completado"
                  /\ r.t.usuario[f.id_solicitante].creditos
                       = usuario[f.id_solicitante].creditos - costo
                  /\ r.t.usuario[f.id_proveedor].creditos
                       = usuario[f.id_proveedor].creditos + costo

\* C36 witness: a completion has just moved a cost that is not the one the
\* service had when the exchange was requested.
C36_Testigo ==
  /\ flash = "actualizado"
  /\ \E i \in Ids :
        /\ intercambio[i].estado = "completado"
        /\ mov[i].debitos = 1
        /\ servicio[intercambio[i].id_servicio_solicitado].creditos_hora # CostoInicial
        /\ usuario[intercambio[i].id_solicitante].creditos
             = CreditosIniciales
                 - servicio[intercambio[i].id_servicio_solicitado].creditos_hora

====
